---------------------------- MODULE Spec2Model ----------------------------
(***************************************************************************)
(* A model of src/src/banking.py: the lexer, the parser, the account table *)
(* and the interpreter of the banking command language, driven by run().   *)
(*                                                                         *)
(* Text is a sequence of one-character strings.  Python's 0-based index i  *)
(* is the position i + 1 here.  A numeric value is held in tenths (the     *)
(* literal "2" is 20, "0.5" is 5), so that int and float literals with at  *)
(* most one fractional digit are added, subtracted and compared exactly.   *)
(* A Python exception that leaves a function is the field "raised" of its  *)
(* result; an Error object that is returned is the field "error".          *)
(***************************************************************************)
EXTENDS Integers, Sequences, FiniteSets, TLC

(***************************************************************************)
(* Character classes and keywords (banking.py lines 37-50).                *)
(***************************************************************************)
WHITESPACE == {" ", "\t", "\n", "\r"}

UPPER == {"A", "B", "C", "D", "E", "F", "G", "H", "I", "J", "K", "L", "M",
          "N", "O", "P", "Q", "R", "S", "T", "U", "V", "W", "X", "Y", "Z"}

LOWER == {"a", "b", "c", "d", "e", "f", "g", "h", "i", "j", "k", "l", "m",
          "n", "o", "p", "q", "r", "s", "t", "u", "v", "w", "x", "y", "z"}

LETTER == LOWER \cup UPPER

DIGIT == {"0", "1", "2", "3", "4", "5", "6", "7", "8", "9"}

DECIMAL_POINT == "."

KW_DEPOSIT == <<"D", "E", "P", "O", "S", "I", "T">>

KW_WITHDRAW == <<"W", "I", "T", "H", "D", "R", "A", "W">>

KW_BALANCE == <<"B", "A", "L", "A", "N", "C", "E">>

KW_CREATE == <<"C", "R", "E", "A", "T", "E">>

KW_FIRSTNAME == <<"F", "I", "R", "S", "T", "N", "A", "M", "E">>

KW_LASTNAME == <<"L", "A", "S", "T", "N", "A", "M", "E">>

KW_ACCOUNT == <<"A", "C", "C", "O", "U", "N", "T">>

KEYWORDS == {KW_DEPOSIT, KW_WITHDRAW, KW_BALANCE, KW_CREATE, KW_FIRSTNAME,
             KW_LASTNAME, KW_ACCOUNT}

\* re.match("^[A-Z]{2}[0-9]{6}", s): the pattern is anchored at the start
\* only, so any string that begins with the eight characters matches.
ACCOUNT_NUMBER_FORMAT(s) ==
    /\ Len(s) >= 8
    /\ s[1] \in UPPER
    /\ s[2] \in UPPER
    /\ \A k \in 3..8 : s[k] \in DIGIT

(***************************************************************************)
(* Errors and tokens (lines 10-62).                                        *)
(***************************************************************************)
None == [error_name |-> "None", details |-> ""]

IllegalCharError(details) ==
    [error_name |-> "Illegal Character", details |-> details]

InvalidSyntaxError(details) ==
    [error_name |-> "Invalid Syntax", details |-> details]

NoRaise == "none"

Token(type, value) == [type |-> type, value |-> value]

IsNumeric(tok) == tok.type \in {"TT_INT", "TT_FLOAT"}

\* token.value != word, for a word that is a Python str: a numeric value
\* never equals a str.
ValueNe(tok, word) == IF IsNumeric(tok) THEN TRUE ELSE tok.value # word

(***************************************************************************)
(* Python's numeric conversions.                                           *)
(***************************************************************************)
DigitVal(c) ==
    CASE c = "0" -> 0 [] c = "1" -> 1 [] c = "2" -> 2 [] c = "3" -> 3
      [] c = "4" -> 4 [] c = "5" -> 5 [] c = "6" -> 6 [] c = "7" -> 7
      [] c = "8" -> 8 [] c = "9" -> 9

RECURSIVE DigitsVal(_)
\* The value of a run of decimal digits (leading zeros allowed), 0 if empty.
DigitsVal(s) ==
    IF s = <<>> THEN 0
    ELSE 10 * DigitsVal(SubSeq(s, 1, Len(s) - 1)) + DigitVal(s[Len(s)])

DotPositions(s) == {k \in 1..Len(s) : s[k] = DECIMAL_POINT}

\* int(number) for a run of digits, in tenths.
PyInt(number) == 10 * DigitsVal(number)

\* float(number) accepts a run of digits and '.' that starts with a digit
\* exactly when it holds one '.'; otherwise it raises ValueError.
PyFloatOk(number) == Cardinality(DotPositions(number)) = 1

\* float(number) in tenths, for a literal with at most one fractional digit.
PyFloat(number) ==
    LET d == CHOOSE k \in DotPositions(number) : TRUE
        frac == SubSeq(number, d + 1, Len(number))
    IN  10 * DigitsVal(SubSeq(number, 1, d - 1))
          + (IF frac = <<>> THEN 0 ELSE DigitVal(frac[1]))

(***************************************************************************)
(* Lexer (lines 65-114).  The lexer's state is the position index; the     *)
(* current character is source[index], or None past the end.               *)
(***************************************************************************)
RECURSIVE WordEnd(_, _)
\* lex_word's loop: the first position at or after i that is past the end
\* or holds whitespace.
WordEnd(source, i) ==
    IF i <= Len(source) /\ source[i] \notin WHITESPACE
    THEN WordEnd(source, i + 1)
    ELSE i

RECURSIVE NumberEnd(_, _)
\* lex_number's loop: the first position at or after i that is past the
\* end or holds neither a digit nor '.'.
NumberEnd(source, i) ==
    IF i <= Len(source) /\ (source[i] \in DIGIT \/ source[i] = DECIMAL_POINT)
    THEN NumberEnd(source, i + 1)
    ELSE i

\* lex_word from position i: the token and the position it stops at.
lex_word(source, i) ==
    LET j == WordEnd(source, i)
        word == SubSeq(source, i, j - 1)
    IN  [token |-> IF word \in KEYWORDS
                   THEN Token("TT_KEYWORD", word)
                   ELSE Token("TT_STR", word),
         index |-> j,
         raised |-> NoRaise]

\* lex_number from position i: the token and the position it stops at, or
\* the ValueError of float().
lex_number(source, i) ==
    LET j == NumberEnd(source, i)
        number == SubSeq(source, i, j - 1)
    IN  IF DECIMAL_POINT \in {number[k] : k \in 1..Len(number)}
        THEN IF PyFloatOk(number)
             THEN [token |-> Token("TT_FLOAT", PyFloat(number)),
                   index |-> j, raised |-> NoRaise]
             ELSE [token |-> Token("TT_FLOAT", 0),
                   index |-> j, raised |-> "ValueError"]
        ELSE [token |-> Token("TT_INT", PyInt(number)),
              index |-> j, raised |-> NoRaise]

RECURSIVE LexLoop(_, _, _)
\* The while loop of Lexer.lex from position i with the tokens so far.
\* The advance() that ends each iteration (line 90) runs after every
\* branch: after lex_word or lex_number returns it steps over the character
\* the sub-lexer stopped at, and after the advance() of the whitespace
\* branch it steps over the character that follows the whitespace.
LexLoop(source, i, tokens) ==
    IF i > Len(source)
    THEN [tokens |-> tokens, error |-> None, raised |-> NoRaise]
    ELSE IF source[i] \in WHITESPACE
    THEN LexLoop(source, i + 2, tokens)
    ELSE IF source[i] \in LETTER
    THEN LET w == lex_word(source, i)
         IN  LexLoop(source, w.index + 1, Append(tokens, w.token))
    ELSE IF source[i] \in DIGIT
    THEN LET n == lex_number(source, i)
         IN  IF n.raised # NoRaise
             THEN [tokens |-> <<>>, error |-> None, raised |-> n.raised]
             ELSE LexLoop(source, n.index + 1, Append(tokens, n.token))
    ELSE [tokens |-> <<>>, error |-> IllegalCharError(source[i]),
          raised |-> NoRaise]

\* Lexer(source).lex()
lex(source) == LexLoop(source, 1, <<>>)

(***************************************************************************)
(* AST nodes (lines 117-174).                                              *)
(***************************************************************************)
\* The account_identifier of parse_create before any ACCOUNT clause: None.
NoToken == Token("None", <<>>)

RandLow == 100000

RECURSIVE PyStr(_)
\* str(n) for an integer n >= 0.
PyStr(n) ==
    LET d == n % 10
        c == CHOOSE ch \in DIGIT : DigitVal(ch) = d
    IN  IF n < 10 THEN <<c>> ELSE Append(PyStr(n \div 10), c)

\* CreateNode.build_account_identifier with randint's outcome rand:
\* value[0] of a numeric token's value raises TypeError.
build_account_identifier(firstname, lastname, rand) ==
    IF IsNumeric(firstname) \/ IsNumeric(lastname)
    THEN [token |-> NoToken, raised |-> "TypeError"]
    ELSE [token |-> Token("TT_STR",
                          <<firstname.value[1]>> \o <<lastname.value[1]>>
                            \o PyStr(rand)),
          raised |-> NoRaise]

\* CreateNode.__init__: the node, or the exception of the constructor.
CreateNode(firstname, lastname, balance, account_identifier, rand) ==
    LET built == build_account_identifier(firstname, lastname, rand)
        ident == IF account_identifier = NoToken
                 THEN built.token
                 ELSE account_identifier
    IN  [statement |-> [kind |-> "CreateNode",
                        firstname |-> firstname,
                        lastname |-> lastname,
                        account_identifier |-> ident,
                        balance |-> balance],
         raised |-> IF account_identifier = NoToken
                    THEN built.raised
                    ELSE NoRaise]

DepositNode(account_identifier, amount) ==
    [kind |-> "DepositNode", account_identifier |-> account_identifier,
     amount |-> amount]

WithdrawNode(account_identifier, amount) ==
    [kind |-> "WithdrawNode", account_identifier |-> account_identifier,
     amount |-> amount]

BalanceNode(account_identifier) ==
    [kind |-> "BalanceNode", account_identifier |-> account_identifier]

(***************************************************************************)
(* Parser (lines 177-314).  The parser's state is the position index; the  *)
(* current token is tokens[index], or None past the end.  A sub-parser     *)
(* yields the statement it returns (a node or an InvalidSyntaxError), the  *)
(* position it stops at, and the exception it raises, if any.              *)
(***************************************************************************)
IsNone(tokens, i) == i > Len(tokens)

Returns(statement, i) ==
    [statement |-> statement, index |-> i, raised |-> NoRaise]

Raises(exception, i) ==
    [statement |-> None, index |-> i, raised |-> exception]

\* type(statement) == InvalidSyntaxError
IsInvalidSyntaxError(statement) ==
    /\ "error_name" \in DOMAIN statement
    /\ statement.error_name = "Invalid Syntax"

\* Lines 215-228.  The amount's test is "current_token is None and (...)":
\* with a token present it is false whatever the token's type, and with no
\* token its second operand reads None.type.
parse_deposit(tokens, i) ==
    IF IsNone(tokens, i + 1) \/ tokens[i + 1].type # "TT_STR"
    THEN Returns(InvalidSyntaxError("Expected a string"), i + 1)
    ELSE IF IsNone(tokens, i + 2)
    THEN Raises("AttributeError", i + 2)
    ELSE Returns(DepositNode(tokens[i + 1], tokens[i + 2]), i + 2)

\* Lines 230-243, the same shape as parse_deposit.
parse_withdraw(tokens, i) ==
    IF IsNone(tokens, i + 1) \/ tokens[i + 1].type # "TT_STR"
    THEN Returns(InvalidSyntaxError("Expected a string"), i + 1)
    ELSE IF IsNone(tokens, i + 2)
    THEN Raises("AttributeError", i + 2)
    ELSE Returns(WithdrawNode(tokens[i + 1], tokens[i + 2]), i + 2)

\* Lines 245-251: current_token.type is read without a test for None.
parse_balance(tokens, i) ==
    IF IsNone(tokens, i + 1)
    THEN Raises("AttributeError", i + 1)
    ELSE IF tokens[i + 1].type = "TT_STR"
    THEN Returns(BalanceNode(tokens[i + 1]), i + 1)
    ELSE Returns(InvalidSyntaxError("Expected a string"), i + 1)

RECURSIVE CreateClauses_ignore(_, _, _, _)
\* The optional-clause loop with an ACCOUNT clause outside the format
\* passed over, so that the identifier is generated, instead of refused.
CreateClauses_ignore(tokens, i, balance, account_identifier) ==
    IF IsNone(tokens, i)
    THEN [balance |-> balance, account_identifier |-> account_identifier,
          error |-> None, raised |-> NoRaise, index |-> i]
    ELSE IF tokens[i].type = "TT_KEYWORD" /\ tokens[i].value = KW_BALANCE
    THEN IF IsNone(tokens, i + 1)
         THEN [balance |-> balance, account_identifier |-> account_identifier,
               error |-> None, raised |-> "AttributeError", index |-> i + 1]
         ELSE IF IsNumeric(tokens[i + 1])
         THEN CreateClauses_ignore(tokens, i + 2, tokens[i + 1],
                                   account_identifier)
         ELSE [balance |-> balance, account_identifier |-> account_identifier,
               error |-> InvalidSyntaxError("Expected a number"),
               raised |-> NoRaise, index |-> i + 1]
    ELSE IF tokens[i].type = "TT_KEYWORD" /\ tokens[i].value = KW_ACCOUNT
    THEN IF IsNone(tokens, i + 1)
         THEN [balance |-> balance, account_identifier |-> account_identifier,
               error |-> None, raised |-> "AttributeError", index |-> i + 1]
         ELSE IF tokens[i + 1].type = "TT_STR"
         THEN IF ACCOUNT_NUMBER_FORMAT(tokens[i + 1].value)
              THEN CreateClauses_ignore(tokens, i + 2, balance, tokens[i + 1])
              ELSE CreateClauses_ignore(tokens, i + 2, balance,
                                        account_identifier)
         ELSE [balance |-> balance, account_identifier |-> account_identifier,
               error |-> InvalidSyntaxError("Expected a string"),
               raised |-> NoRaise, index |-> i + 1]
    ELSE CreateClauses_ignore(tokens, i + 1, balance, account_identifier)

RECURSIVE CreateClauses_stop(_, _, _, _)
\* The optional-clause loop ending at the first token that opens no
\* clause, which is left to the next statement.
CreateClauses_stop(tokens, i, balance, account_identifier) ==
    IF IsNone(tokens, i)
    THEN [balance |-> balance, account_identifier |-> account_identifier,
          error |-> None, raised |-> NoRaise, index |-> i]
    ELSE IF tokens[i].type = "TT_KEYWORD" /\ tokens[i].value = KW_BALANCE
    THEN IF IsNone(tokens, i + 1)
         THEN [balance |-> balance, account_identifier |-> account_identifier,
               error |-> None, raised |-> "AttributeError", index |-> i + 1]
         ELSE IF IsNumeric(tokens[i + 1])
         THEN CreateClauses_stop(tokens, i + 2, tokens[i + 1],
                                 account_identifier)
         ELSE [balance |-> balance, account_identifier |-> account_identifier,
               error |-> InvalidSyntaxError("Expected a number"),
               raised |-> NoRaise, index |-> i + 1]
    ELSE IF tokens[i].type = "TT_KEYWORD" /\ tokens[i].value = KW_ACCOUNT
    THEN IF IsNone(tokens, i + 1)
         THEN [balance |-> balance, account_identifier |-> account_identifier,
               error |-> None, raised |-> "AttributeError", index |-> i + 1]
         ELSE IF tokens[i + 1].type = "TT_STR"
         THEN IF ACCOUNT_NUMBER_FORMAT(tokens[i + 1].value)
              THEN CreateClauses_stop(tokens, i + 2, balance, tokens[i + 1])
              ELSE [balance |-> balance,
                    account_identifier |-> account_identifier,
                    error |-> InvalidSyntaxError("Invalid account number format"),
                    raised |-> NoRaise, index |-> i + 1]
         ELSE [balance |-> balance, account_identifier |-> account_identifier,
               error |-> InvalidSyntaxError("Expected a string"),
               raised |-> NoRaise, index |-> i + 1]
    ELSE [balance |-> balance, account_identifier |-> account_identifier,
          error |-> None, raised |-> NoRaise, index |-> i - 1]

RECURSIVE CreateClauses(_, _, _, _)
\* Lines 287-312: the optional-clause loop of parse_create from position i,
\* which runs until no token is left.
CreateClauses(tokens, i, balance, account_identifier) ==
    IF IsNone(tokens, i)
    THEN [balance |-> balance, account_identifier |-> account_identifier,
          error |-> None, raised |-> NoRaise, index |-> i]
    ELSE IF tokens[i].type = "TT_KEYWORD" /\ tokens[i].value = KW_BALANCE
    THEN IF IsNone(tokens, i + 1)
         THEN [balance |-> balance, account_identifier |-> account_identifier,
               error |-> None, raised |-> "AttributeError", index |-> i + 1]
         ELSE IF IsNumeric(tokens[i + 1])
         THEN CreateClauses(tokens, i + 2, tokens[i + 1], account_identifier)
         ELSE [balance |-> balance, account_identifier |-> account_identifier,
               error |-> InvalidSyntaxError("Expected a number"),
               raised |-> NoRaise, index |-> i + 1]
    ELSE IF tokens[i].type = "TT_KEYWORD" /\ tokens[i].value = KW_ACCOUNT
    THEN IF IsNone(tokens, i + 1)
         THEN [balance |-> balance, account_identifier |-> account_identifier,
               error |-> None, raised |-> "AttributeError", index |-> i + 1]
         ELSE IF tokens[i + 1].type = "TT_STR"
         THEN IF ACCOUNT_NUMBER_FORMAT(tokens[i + 1].value)
              THEN CreateClauses(tokens, i + 2, balance, tokens[i + 1])
              ELSE [balance |-> balance,
                    account_identifier |-> account_identifier,
                    error |-> InvalidSyntaxError("Invalid account number format"),
                    raised |-> NoRaise, index |-> i + 1]
         ELSE [balance |-> balance, account_identifier |-> account_identifier,
               error |-> InvalidSyntaxError("Expected a string"),
               raised |-> NoRaise, index |-> i + 1]
    ELSE CreateClauses(tokens, i + 1, balance, account_identifier)

\* Lines 256-259 and 270-273: "None, or not a keyword and not this word".
NotKeywordNorWord(tokens, i, word) ==
    \/ IsNone(tokens, i)
    \/ (tokens[i].type # "TT_KEYWORD" /\ ValueNe(tokens[i], word))

\* Lines 253-314.  The names' tests are "current_token is None and (...)":
\* with a token present they are false, with none they read None.type.
parse_create(tokens, i, rand) ==
    IF NotKeywordNorWord(tokens, i + 1, KW_FIRSTNAME)
    THEN Returns(InvalidSyntaxError("Expected keyword FIRSTNAME"), i + 1)
    ELSE IF IsNone(tokens, i + 2)
    THEN Raises("AttributeError", i + 2)
    ELSE IF NotKeywordNorWord(tokens, i + 3, KW_LASTNAME)
    THEN Returns(InvalidSyntaxError("Expected the keyword LASTNAME"), i + 3)
    ELSE IF IsNone(tokens, i + 4)
    THEN Raises("AttributeError", i + 4)
    ELSE LET c == CreateClauses(tokens, i + 5, Token("TT_INT", 0), NoToken)
             n == CreateNode(tokens[i + 2], tokens[i + 4], c.balance,
                             c.account_identifier, rand)
         IN  IF c.raised # NoRaise
             THEN Raises(c.raised, c.index)
             ELSE IF c.error # None
             THEN Returns(c.error, c.index)
             ELSE IF n.raised # NoRaise
             THEN Raises(n.raised, c.index)
             ELSE Returns(n.statement, c.index)

\* Lines 201-213.
parse_statement(tokens, i, rand) ==
    IF tokens[i].type = "TT_KEYWORD" /\ tokens[i].value = KW_CREATE
    THEN parse_create(tokens, i, rand)
    ELSE IF tokens[i].type = "TT_KEYWORD" /\ tokens[i].value = KW_DEPOSIT
    THEN parse_deposit(tokens, i)
    ELSE IF tokens[i].type = "TT_KEYWORD" /\ tokens[i].value = KW_WITHDRAW
    THEN parse_withdraw(tokens, i)
    ELSE IF tokens[i].type = "TT_KEYWORD" /\ tokens[i].value = KW_BALANCE
    THEN parse_balance(tokens, i)
    ELSE Returns(InvalidSyntaxError(
                   "Expected keyword CREATE, DEPOSIT, WITHDRAW, or BALANCE"), i)

RECURSIVE ParseLoop(_, _, _, _)
\* The while loop of Parser.parse from position i.  parse_create runs to the
\* end of the tokens, so one parse builds at most one CreateNode and draws
\* at most one random number, rand.
ParseLoop(tokens, i, statements, rand) ==
    IF IsNone(tokens, i)
    THEN [statements |-> statements, error |-> None, raised |-> NoRaise]
    ELSE LET st == parse_statement(tokens, i, rand)
         IN  IF st.raised # NoRaise
             THEN [statements |-> <<>>, error |-> None, raised |-> st.raised]
             ELSE IF IsInvalidSyntaxError(st.statement)
             THEN [statements |-> <<>>, error |-> st.statement,
                   raised |-> NoRaise]
             ELSE ParseLoop(tokens, st.index + 1,
                            Append(statements, st.statement), rand)

\* Parser(tokens).parse()
parse(tokens, rand) == ParseLoop(tokens, 1, <<>>, rand)

(***************************************************************************)
(* AccountTable (lines 317-333).  accounts maps an identifier to the       *)
(* CreateNode stored under it.                                             *)
(***************************************************************************)
NoAccount == [kind |-> "None"]

EmptyTable == [k \in {} |-> NoAccount]

Line(text, ident, amount) == [text |-> text, ident |-> ident, amount |-> amount]

get_account(accounts, account_identifier) ==
    IF account_identifier \in DOMAIN accounts
    THEN accounts[account_identifier]
    ELSE NoAccount

\* add_account without the test for an existing account: the account
\* stored under the identifier is overwritten.
add_account_overwrite(accounts, account) ==
    LET ident == account.account_identifier.value
    IN  [accounts |-> [k \in DOMAIN accounts \cup {ident} |->
                         IF k = ident THEN account ELSE accounts[k]],
         printed |-> <<>>]

\* add_account with the account stored under the eight characters of its
\* identifier that the account-number format describes.
add_account_prefix_key(accounts, account) ==
    LET ident == account.account_identifier.value
        key == SubSeq(ident, 1, 8)
        result == get_account(accounts, key)
    IN  IF result.kind = "None"
        THEN [accounts |-> [k \in DOMAIN accounts \cup {key} |->
                              IF k = key THEN account ELSE accounts[k]],
              printed |-> <<>>]
        ELSE [accounts |-> accounts,
              printed |-> <<Line("Account already exists", <<>>, 0)>>]

\* The table after add_account(account), and the line it prints.
add_account(accounts, account) ==
    LET ident == account.account_identifier.value
        result == get_account(accounts, ident)
    IN  IF result.kind = "None"
        THEN [accounts |-> [k \in DOMAIN accounts \cup {ident} |->
                              IF k = ident THEN account ELSE accounts[k]],
              printed |-> <<>>]
        ELSE [accounts |-> accounts,
              printed |-> <<Line("Account already exists", <<>>, 0)>>]

(***************************************************************************)
(* Interpreter (lines 336-382): each visit yields the table it leaves, the *)
(* lines it prints and the exception it raises, if any.                    *)
(***************************************************************************)
Visited(accounts, printed) ==
    [accounts |-> accounts, printed |-> printed, raised |-> NoRaise]

\* visit_CreateNode with the opening balance of a duplicate added to the
\* balance of the account already stored.
visit_CreateNode_topup(accounts, node) ==
    LET ident == node.account_identifier.value
        r == add_account(accounts, node)
        printed == r.printed \o <<Line("Account created", ident, 0)>>
    IN  IF ident \in DOMAIN accounts
        THEN Visited([accounts EXCEPT ![ident].balance.value =
                                          @ + node.balance.value],
                     printed)
        ELSE Visited(r.accounts, printed)

visit_CreateNode(accounts, node) ==
    LET r == add_account(accounts, node)
    IN  Visited(r.accounts,
                r.printed \o <<Line("Account created",
                                    node.account_identifier.value, 0)>>)

\* visit_DepositNode with a deposit on an unknown identifier opening an
\* account that holds the amount.
visit_DepositNode_upsert(accounts, node) ==
    LET ident == node.account_identifier.value
        account == get_account(accounts, ident)
        opened == [kind |-> "CreateNode",
                   firstname |-> Token("TT_STR", <<>>),
                   lastname |-> Token("TT_STR", <<>>),
                   account_identifier |-> node.account_identifier,
                   balance |-> node.amount]
    IN  IF ~IsNumeric(node.amount)
        THEN IF account.kind # "None"
             THEN [accounts |-> accounts, printed |-> <<>>,
                   raised |-> "TypeError"]
             ELSE Visited(accounts, <<Line("Account not found", <<>>, 0)>>)
        ELSE IF account.kind # "None"
        THEN Visited([accounts EXCEPT ![ident].balance.value =
                                          @ + node.amount.value],
                     <<Line("Deposit successful", ident, node.amount.value)>>)
        ELSE Visited([k \in DOMAIN accounts \cup {ident} |->
                        IF k = ident THEN opened ELSE accounts[k]],
                     <<Line("Deposit successful", ident, node.amount.value)>>)

\* "balance.value += amount.value" with a str amount raises TypeError.
visit_DepositNode(accounts, node) ==
    LET ident == node.account_identifier.value
        account == get_account(accounts, ident)
    IN  IF account.kind # "None"
        THEN IF ~IsNumeric(node.amount)
             THEN [accounts |-> accounts, printed |-> <<>>,
                   raised |-> "TypeError"]
             ELSE Visited([accounts EXCEPT ![ident].balance.value =
                                               @ + node.amount.value],
                          <<Line("Deposit successful", ident,
                                 node.amount.value)>>)
        ELSE Visited(accounts, <<Line("Account not found", <<>>, 0)>>)

\* visit_WithdrawNode with "<=" for "<": a withdrawal of the whole balance
\* is refused.
visit_WithdrawNode_le(accounts, node) ==
    LET ident == node.account_identifier.value
        account == get_account(accounts, ident)
    IN  IF account.kind # "None"
        THEN IF ~IsNumeric(node.amount)
             THEN [accounts |-> accounts, printed |-> <<>>,
                   raised |-> "TypeError"]
             ELSE IF account.balance.value <= node.amount.value
             THEN Visited(accounts, <<Line("Insufficient funds", ident, 0)>>)
             ELSE Visited([accounts EXCEPT ![ident].balance.value =
                                               @ - node.amount.value],
                          <<Line("Withdrawal successful", ident,
                                 node.amount.value)>>)
        ELSE Visited(accounts, <<Line("Account not found", <<>>, 0)>>)

\* visit_WithdrawNode without the test of the balance.
visit_WithdrawNode_unchecked(accounts, node) ==
    LET ident == node.account_identifier.value
        account == get_account(accounts, ident)
    IN  IF account.kind # "None"
        THEN IF ~IsNumeric(node.amount)
             THEN [accounts |-> accounts, printed |-> <<>>,
                   raised |-> "TypeError"]
             ELSE Visited([accounts EXCEPT ![ident].balance.value =
                                               @ - node.amount.value],
                          <<Line("Withdrawal successful", ident,
                                 node.amount.value)>>)
        ELSE Visited(accounts, <<Line("Account not found", <<>>, 0)>>)

\* "balance.value < amount.value" with a str amount raises TypeError.
visit_WithdrawNode(accounts, node) ==
    LET ident == node.account_identifier.value
        account == get_account(accounts, ident)
    IN  IF account.kind # "None"
        THEN IF ~IsNumeric(node.amount)
             THEN [accounts |-> accounts, printed |-> <<>>,
                   raised |-> "TypeError"]
             ELSE IF account.balance.value < node.amount.value
             THEN Visited(accounts, <<Line("Insufficient funds", ident, 0)>>)
             ELSE Visited([accounts EXCEPT ![ident].balance.value =
                                               @ - node.amount.value],
                          <<Line("Withdrawal successful", ident,
                                 node.amount.value)>>)
        ELSE Visited(accounts, <<Line("Account not found", <<>>, 0)>>)

visit_BalanceNode(accounts, node) ==
    LET ident == node.account_identifier.value
        account == get_account(accounts, ident)
    IN  IF account.kind # "None"
        THEN Visited(accounts, <<Line("Balance", ident, account.balance.value)>>)
        ELSE Visited(accounts, <<Line("Account not found", <<>>, 0)>>)

\* Interpreter.visit: dispatch on the node's type name.
visit(accounts, node) ==
    CASE node.kind = "CreateNode" -> visit_CreateNode(accounts, node)
      [] node.kind = "DepositNode" -> visit_DepositNode(accounts, node)
      [] node.kind = "WithdrawNode" -> visit_WithdrawNode(accounts, node)
      [] node.kind = "BalanceNode" -> visit_BalanceNode(accounts, node)

(***************************************************************************)
(* run (lines 388-406), up to the call of interpret.                       *)
(***************************************************************************)
run_parse(stream, rand) ==
    LET l == lex(stream)
        p == parse(l.tokens, rand)
    IN  IF l.raised # NoRaise
        THEN [tokens |-> <<>>, ast |-> <<>>, error |-> None,
              raised |-> l.raised]
        ELSE IF l.error # None
        THEN [tokens |-> <<>>, ast |-> <<>>, error |-> l.error,
              raised |-> NoRaise]
        ELSE IF p.raised # NoRaise
        THEN [tokens |-> l.tokens, ast |-> <<>>, error |-> None,
              raised |-> p.raised]
        ELSE IF p.error # None
        THEN [tokens |-> l.tokens, ast |-> <<>>, error |-> p.error,
              raised |-> NoRaise]
        ELSE [tokens |-> l.tokens, ast |-> p.statements, error |-> None,
              raised |-> NoRaise]

(***************************************************************************)
(* The chunks given to run.  A chunk is written as a list of words; the    *)
(* text of the chunk is the words joined by single spaces.                 *)
(***************************************************************************)
MaxStmts == 2

MaxAccounts == 2

MaxBalance == 2

RandCount == 2

RECURSIVE Join(_)
Join(words) ==
    IF words = <<>> THEN <<>>
    ELSE IF Len(words) = 1 THEN words[1]
    ELSE words[1] \o <<" ">> \o Join(Tail(words))

N_Al == <<"A", "l">>

N_Bo == <<"B", "o">>

N_bo == <<"b", "o">>

ID_AB == <<"A", "B", "1", "2", "3", "4", "5", "6">>

\* The identifier generated for the names Al and Bo when randint gives RandLow.
ID_GEN == <<"A", "B", "1", "0", "0", "0", "0", "0">>

ID_lower == <<"a", "b", "1", "2", "3", "4", "5", "6">>

\* An identifier of nine characters.
ID_long == <<"A", "B", "1", "2", "3", "4", "5", "6", "7">>

NUM_1 == <<"1">>

NUM_2 == <<"2">>

NUM_float == <<"1", ".", "0">>

NUM_half == <<"0", ".", "5">>

NUM_dots == <<"1", ".", "2", ".", "3">>

NUM_dollar == <<"1", "$">>

NUM_letters == <<"1", "2", "a", "b">>

W_dollar == <<"$">>

\* The empty word: joined with its neighbours it leaves a whitespace that no
\* word precedes.
W_empty == <<>>

Rands == RandLow .. (RandLow + RandCount - 1)

CreateHead(f, l) == <<KW_CREATE, KW_FIRSTNAME, f, KW_LASTNAME, l>>

\* Well-formed CREATE statements.
GoodCreates ==
    { CreateHead(N_Al, N_Bo),
      CreateHead(N_bo, N_Al),
      CreateHead(N_Al, N_Bo) \o <<KW_ACCOUNT, ID_AB>>,
      CreateHead(N_Al, N_Bo) \o <<KW_BALANCE, NUM_float, KW_ACCOUNT, ID_long>>,
      CreateHead(N_Al, N_Bo) \o <<KW_ACCOUNT, ID_AB, KW_BALANCE, NUM_1>>,
      CreateHead(N_Al, N_Bo) \o <<KW_BALANCE, NUM_1, KW_ACCOUNT, ID_GEN>> }

\* Well-formed DEPOSIT, WITHDRAW and BALANCE statements.  No amount of a
\* DEPOSIT is greater than 1.
GoodCommands ==
    { <<kw, id, n>> : kw \in {KW_DEPOSIT, KW_WITHDRAW},
                      id \in {ID_AB, ID_GEN}, n \in {NUM_1, NUM_float} }
      \cup { <<KW_BALANCE, id>> : id \in {ID_AB, ID_GEN} }
      \cup { <<KW_WITHDRAW, ID_lower, NUM_half>>, <<KW_WITHDRAW, ID_AB, NUM_2>> }

\* The statements that are cut short.
BaseStatements ==
    { CreateHead(N_Al, N_Bo) \o <<KW_BALANCE, NUM_1, KW_ACCOUNT, ID_AB>>,
      CreateHead(N_Al, N_Bo) \o <<KW_ACCOUNT, ID_AB, KW_BALANCE, NUM_1>>,
      <<KW_DEPOSIT, ID_AB, NUM_1>>,
      <<KW_WITHDRAW, ID_AB, NUM_1>>,
      <<KW_BALANCE, ID_AB>> }

Truncated ==
    UNION { { SubSeq(ws, 1, n) : n \in 0..(Len(ws) - 1) } :
              ws \in BaseStatements }

\* DEPOSIT, WITHDRAW and BALANCE statements with one word replaced.
Replaced ==
    UNION { { [ws EXCEPT ![k] = w] : k \in 2..Len(ws) } :
              ws \in { <<KW_DEPOSIT, ID_AB, NUM_1>>,
                       <<KW_WITHDRAW, ID_AB, NUM_1>>,
                       <<KW_BALANCE, ID_AB>> },
              w \in { KW_LASTNAME, N_Al, NUM_1 } }

\* CREATE statements that depart from the grammar.
OddCreates ==
    { <<KW_CREATE, KW_LASTNAME, N_Al, KW_FIRSTNAME, N_Bo, KW_ACCOUNT, ID_AB>>,
      <<KW_CREATE, N_Al, N_Al, KW_LASTNAME, N_Bo>>,
      <<KW_CREATE, KW_FIRSTNAME, N_Al, N_Bo, N_Bo>>,
      CreateHead(NUM_1, N_Bo) \o <<KW_ACCOUNT, ID_long>>,
      CreateHead(NUM_1, N_Bo),
      CreateHead(N_Al, KW_BALANCE),
      CreateHead(N_Al, N_Bo) \o <<KW_BALANCE, N_Al>>,
      CreateHead(N_Al, N_Bo) \o <<KW_ACCOUNT, NUM_1>>,
      CreateHead(N_Al, N_Bo) \o <<KW_ACCOUNT, ID_lower>>,
      CreateHead(N_Al, N_Bo) \o <<KW_BALANCE, NUM_1, KW_ACCOUNT, ID_lower>>,
      CreateHead(N_Al, N_Bo) \o <<KW_ACCOUNT, ID_AB, KW_DEPOSIT, ID_AB, NUM_1>>,
      CreateHead(N_Al, N_Bo) \o <<N_Al, NUM_1, KW_ACCOUNT, ID_AB>>,
      CreateHead(N_Al, N_Bo) \o <<KW_ACCOUNT, ID_long>> }

\* Chunks with a word the lexer stops at, drops a character of, or fails on.
LexerCases ==
    { <<W_dollar>>,
      <<KW_DEPOSIT, ID_AB, NUM_dollar>>,
      <<KW_DEPOSIT, ID_AB, NUM_dots>>,
      <<KW_DEPOSIT, ID_AB, NUM_letters>>,
      <<KW_BALANCE, NUM_letters>>,
      <<KW_BALANCE, W_empty, ID_AB>>,
      <<W_empty, KW_BALANCE, ID_AB>> }

\* The statements that come first in a chunk of several statements.
CoreStatements ==
    { <<KW_DEPOSIT, ID_AB, NUM_1>>,
      <<KW_WITHDRAW, ID_AB, NUM_1>>,
      <<KW_BALANCE, ID_GEN>>,
      <<KW_DEPOSIT, ID_AB, N_Al>> }

\* The statements that end a chunk of several statements.
LastStatements ==
    CoreStatements \cup
    { <<KW_DEPOSIT, ID_AB>>, <<KW_BALANCE, NUM_1>>, <<W_dollar>>,
      <<KW_WITHDRAW, ID_AB, NUM_dots>>,
      CreateHead(N_Al, N_Bo) \o <<KW_ACCOUNT, ID_AB>>,
      CreateHead(N_Al, N_Bo) \o <<KW_ACCOUNT, ID_lower>> }

RECURSIVE Repeat(_, _)
Repeat(words, n) == IF n = 0 THEN <<>> ELSE words \o Repeat(words, n - 1)

\* Chunks of several statements: a core statement, at most MaxStmts - 1
\* times, and a last statement.
Several ==
    { Repeat(c, n) \o l : c \in CoreStatements, n \in 1..(MaxStmts - 1),
                          l \in LastStatements }

\* Chunks of three statements, the first with a non-fatal outcome.
Batches ==
    { <<KW_BALANCE, ID_GEN>> \o <<KW_DEPOSIT, ID_AB, N_Al>>
        \o <<KW_WITHDRAW, ID_AB, NUM_1>>,
      <<KW_WITHDRAW, ID_AB, NUM_2>> \o <<KW_WITHDRAW, ID_AB, NUM_1>>
        \o <<KW_BALANCE, ID_AB>>,
      <<KW_BALANCE, ID_GEN>> \o <<KW_WITHDRAW, ID_AB, NUM_1>>
        \o (CreateHead(N_bo, N_Al) \o <<KW_ACCOUNT, ID_AB>>) }

Chunks ==
    GoodCreates \cup GoodCommands \cup Truncated \cup Replaced
      \cup OddCreates \cup LexerCases \cup Several \cup Batches

CountWord(words, w) == Cardinality({k \in 1..Len(words) : words[k] = w})

MaxOf(S) == IF S = {} THEN 0 ELSE CHOOSE m \in S : \A o \in S : o <= m

\* The chunks submitted in a state: the table never holds more than
\* MaxAccounts accounts, and no balance passes MaxBalance (each CREATE adds
\* at most one account, each DEPOSIT at most 1).
Fits(accounts, words) ==
    /\ Cardinality(DOMAIN accounts) + CountWord(words, KW_CREATE) <= MaxAccounts
    /\ MaxOf({accounts[k].balance.value : k \in DOMAIN accounts})
         + 10 * CountWord(words, KW_DEPOSIT) <= 10 * MaxBalance

\* randint is called only for a CREATE: other chunks draw nothing.
Draws(words) == IF CountWord(words, KW_CREATE) = 0 THEN {RandLow} ELSE Rands

(***************************************************************************)
(* State.                                                                  *)
(***************************************************************************)
VARIABLES
    accounts,   \* global_account_table.accounts
    pc,         \* "idle", "interpret" (inside interpret), "returned", "raised"
    stream,     \* the argument of the current or last call of run
    tokens,     \* the tokens run got from the lexer (<<>> if it got none)
    ast,        \* the statements interpret iterates over
    ip,         \* the position in ast of the next statement to visit
    ret,        \* the value the last call of run returned
    exc,        \* the exception that left run
    entry,      \* accounts when run was called
    prev,       \* accounts before the last visit
    out         \* for each statement visited in this call, the lines printed

vars ==
    <<accounts, pc, stream, tokens, ast, ip, ret, exc, entry, prev, out>>

Init ==
    /\ accounts = EmptyTable
    /\ pc = "idle"
    /\ stream = <<>>
    /\ tokens = <<>>
    /\ ast = <<>>
    /\ ip = 1
    /\ ret = None
    /\ exc = NoRaise
    /\ entry = EmptyTable
    /\ prev = EmptyTable
    /\ out = <<>>

RECURSIVE ParsedBeforeError(_, _, _, _)
\* The statements a parse has built when it meets its first error.
ParsedBeforeError(toks, i, statements, rand) ==
    IF IsNone(toks, i)
    THEN statements
    ELSE LET st == parse_statement(toks, i, rand)
         IN  IF st.raised # NoRaise \/ IsInvalidSyntaxError(st.statement)
             THEN statements
             ELSE ParsedBeforeError(toks, st.index + 1,
                                    Append(statements, st.statement), rand)

RECURSIVE InterpretAll(_, _)
\* The table after visiting the statements in order, up to the first
\* exception.
InterpretAll(table, statements) ==
    IF statements = <<>> THEN table
    ELSE LET v == visit(table, statements[1])
         IN  IF v.raised # NoRaise THEN table
             ELSE InterpretAll(v.accounts, Tail(statements))

\* run as a statement-at-a-time loop: the statements parsed before a syntax
\* error are executed before the error is returned.
RunOn_eager(text, rand) ==
    LET r == run_parse(text, rand)
        l == lex(text)
        done == IF l.raised = NoRaise /\ l.error = None
                THEN ParsedBeforeError(l.tokens, 1, <<>>, rand)
                ELSE <<>>
    IN  /\ stream' = text
        /\ tokens' = r.tokens
        /\ entry' = accounts
        /\ prev' = accounts
        /\ out' = <<>>
        /\ ip' = 1
        /\ ast' = r.ast
        /\ exc' = r.raised
        /\ ret' = r.error
        /\ pc' = IF r.raised # NoRaise THEN "raised"
                 ELSE IF r.error # None THEN "returned"
                 ELSE "interpret"
        /\ accounts' = IF r.raised = NoRaise /\ r.error # None
                       THEN InterpretAll(accounts, done)
                       ELSE accounts

\* run(stream), lines 390-404: lex and parse; an error is returned, an
\* exception leaves run, otherwise interpret starts on the statements.
RunOn(text, rand) ==
    LET r == run_parse(text, rand)
    IN  /\ stream' = text
        /\ tokens' = r.tokens
        /\ entry' = accounts
        /\ prev' = accounts
        /\ out' = <<>>
        /\ ip' = 1
        /\ ast' = r.ast
        /\ exc' = r.raised
        /\ ret' = r.error
        /\ pc' = IF r.raised # NoRaise THEN "raised"
                 ELSE IF r.error # None THEN "returned"
                 ELSE "interpret"
        /\ UNCHANGED accounts

\* The caller passes a chunk to run.
Run ==
    /\ pc = "idle"
    /\ \E words \in Chunks :
          /\ Fits(accounts, words)
          /\ \E rand \in Draws(words) : RunOn(Join(words), rand)

\* One iteration of interpret's loop (lines 341-342): visit ast[ip].
Visit ==
    /\ pc = "interpret"
    /\ ip <= Len(ast)
    /\ LET v == visit(accounts, ast[ip])
       IN  /\ prev' = accounts
           /\ accounts' = v.accounts
           /\ out' = IF v.raised # NoRaise THEN out ELSE Append(out, v.printed)
           /\ exc' = v.raised
           /\ pc' = IF v.raised # NoRaise THEN "raised" ELSE "interpret"
           /\ ip' = IF v.raised # NoRaise THEN ip ELSE ip + 1
           /\ UNCHANGED <<stream, tokens, ast, ret, entry>>

\* interpret's loop ends and run returns None (line 406).
Return ==
    /\ pc = "interpret"
    /\ ip > Len(ast)
    /\ pc' = "returned"
    /\ ret' = None
    /\ UNCHANGED <<accounts, stream, tokens, ast, ip, exc, entry, prev, out>>

\* The caller takes run's result; the table lives on for the next call.
Caller ==
    /\ pc = "returned"
    /\ pc' = "idle"
    /\ stream' = <<>>
    /\ tokens' = <<>>
    /\ ast' = <<>>
    /\ ip' = 1
    /\ ret' = None
    /\ entry' = accounts
    /\ prev' = accounts
    /\ out' = <<>>
    /\ UNCHANGED <<accounts, exc>>

Next ==
    \/ Run
    \/ Visit
    \/ Return
    \/ Caller

Spec == Init /\ [][Next]_vars

(***************************************************************************)
(* The statement visited last in the current call of run.                  *)
(***************************************************************************)
\* The last visit returned normally: it was of ast[ip - 1], it turned the
\* table prev into accounts and printed out[ip - 1].
Completed == pc \in {"interpret", "returned"} /\ ip > 1

LastNode == ast[ip - 1]

LastOut == out[ip - 1]

LastId == LastNode.account_identifier.value

\* The last visit raised an exception: it was of ast[ip].
RaisedInVisit == pc = "raised" /\ ast # <<>>

Texts(lines) == {lines[k].text : k \in 1..Len(lines)}

IsKw(tok, word) == tok.type = "TT_KEYWORD" /\ tok.value = word

(***************************************************************************)
(* C1.  A WITHDRAW executed on an existing account with a numeric amount   *)
(* returns normally; if amount <= balance the balance afterwards is        *)
(* balance_before - amount (0 when they are equal) and the withdrawal is   *)
(* reported; if amount > balance the balance is unchanged and the outcome  *)
(* is Insufficient funds.                                                  *)
(***************************************************************************)
C1_Withdraw ==
    /\ (Completed /\ LastNode.kind = "WithdrawNode" /\ LastId \in DOMAIN prev
          /\ IsNumeric(LastNode.amount))
       => /\ LastId \in DOMAIN accounts
          /\ IF LastNode.amount.value <= prev[LastId].balance.value
             THEN /\ accounts[LastId].balance.value
                       = prev[LastId].balance.value - LastNode.amount.value
                  /\ Texts(LastOut) = {"Withdrawal successful"}
             ELSE /\ accounts[LastId].balance.value = prev[LastId].balance.value
                  /\ Texts(LastOut) = {"Insufficient funds"}
    /\ (RaisedInVisit /\ ast[ip].kind = "WithdrawNode")
       => ~IsNumeric(ast[ip].amount)

\* A withdrawal of the whole, non-zero balance has left 0.
C1_Witness ==
    /\ Completed
    /\ LastNode.kind = "WithdrawNode"
    /\ LastId \in DOMAIN prev
    /\ IsNumeric(LastNode.amount)
    /\ LastNode.amount.value = prev[LastId].balance.value
    /\ prev[LastId].balance.value > 0
    /\ accounts[LastId].balance.value = 0

\* A withdrawal of more than the balance has been refused.
C1_WitnessRefused ==
    /\ Completed
    /\ LastNode.kind = "WithdrawNode"
    /\ LastId \in DOMAIN prev
    /\ IsNumeric(LastNode.amount)
    /\ LastNode.amount.value > prev[LastId].balance.value
    /\ prev[LastId].balance.value > 0

\* A withdrawal of less than the balance has been made.
C1_WitnessPartial ==
    /\ Completed
    /\ LastNode.kind = "WithdrawNode"
    /\ LastId \in DOMAIN prev
    /\ IsNumeric(LastNode.amount)
    /\ LastNode.amount.value < prev[LastId].balance.value
    /\ accounts[LastId].balance.value > 0

(***************************************************************************)
(* C2.  A DEPOSIT executed on an existing account leaves that account's    *)
(* balance at balance_before + amount and changes nothing else of the      *)
(* table; a DEPOSIT on an unknown identifier changes nothing and reports   *)
(* Account not found.  (Stated for every visit of a DepositNode, whether   *)
(* it returns or raises.)                                                  *)
(***************************************************************************)
C2_Deposit ==
    /\ (Completed /\ LastNode.kind = "DepositNode")
       => IF LastId \in DOMAIN prev
          THEN /\ IsNumeric(LastNode.amount)
               /\ DOMAIN accounts = DOMAIN prev
               /\ accounts[LastId].balance.value
                    = prev[LastId].balance.value + LastNode.amount.value
               /\ accounts[LastId].firstname = prev[LastId].firstname
               /\ accounts[LastId].lastname = prev[LastId].lastname
               /\ accounts[LastId].account_identifier
                    = prev[LastId].account_identifier
               /\ \A k \in DOMAIN prev \ {LastId} : accounts[k] = prev[k]
          ELSE /\ accounts = prev
               /\ Texts(LastOut) = {"Account not found"}
    /\ ~(RaisedInVisit /\ ast[ip].kind = "DepositNode")

\* The same for the DepositNodes whose amount is a number: this part holds.
C2_DepositNumeric ==
    /\ (Completed /\ LastNode.kind = "DepositNode")
       => IF LastId \in DOMAIN prev
          THEN /\ IsNumeric(LastNode.amount)
               /\ DOMAIN accounts = DOMAIN prev
               /\ accounts[LastId].balance.value
                    = prev[LastId].balance.value + LastNode.amount.value
               /\ accounts[LastId].firstname = prev[LastId].firstname
               /\ accounts[LastId].lastname = prev[LastId].lastname
               /\ accounts[LastId].account_identifier
                    = prev[LastId].account_identifier
               /\ \A k \in DOMAIN prev \ {LastId} : accounts[k] = prev[k]
          ELSE /\ accounts = prev
               /\ Texts(LastOut) = {"Account not found"}
    /\ (RaisedInVisit /\ ast[ip].kind = "DepositNode")
       => ~IsNumeric(ast[ip].amount)

(***************************************************************************)
(* C3.  A CREATE of the grammar's form with one ACCOUNT clause yields a    *)
(* node whose identifier is the literal of that clause, and executing it   *)
(* with the identifier not in the table stores the node under the literal; *)
(* executing a CREATE whose identifier is already in the table leaves the  *)
(* table as it was (names and current balance kept, no key added).         *)
(***************************************************************************)
\* The positions of the optional clauses of a CREATE that starts at s, when
\* the tokens after the names are clauses only.
ClausePositions(toks, s) == {k \in (s + 5)..Len(toks) : (k - s) % 2 = 1}

\* toks holds, from position s on, a CREATE of the grammar's form.
ValidCreateAt(toks, s) ==
    /\ Len(toks) >= s + 4
    /\ (Len(toks) - s) % 2 = 0
    /\ IsKw(toks[s], KW_CREATE)
    /\ IsKw(toks[s + 1], KW_FIRSTNAME)
    /\ toks[s + 2].type = "TT_STR"
    /\ IsKw(toks[s + 3], KW_LASTNAME)
    /\ toks[s + 4].type = "TT_STR"
    /\ \A k \in ClausePositions(toks, s) :
          \/ IsKw(toks[k], KW_BALANCE) /\ IsNumeric(toks[k + 1])
          \/ /\ IsKw(toks[k], KW_ACCOUNT)
             /\ toks[k + 1].type = "TT_STR"
             /\ ACCOUNT_NUMBER_FORMAT(toks[k + 1].value)

AccountClauses(toks, s) ==
    {k \in ClausePositions(toks, s) : IsKw(toks[k], KW_ACCOUNT)}

\* The chunk ends with a CREATE of the grammar's form that has exactly one
\* ACCOUNT clause, at position k.
ExplicitCreate(toks, s, k) ==
    /\ ValidCreateAt(toks, s)
    /\ AccountClauses(toks, s) = {k}

C3_Create ==
    /\ (pc \in {"interpret", "returned"} /\ ret = None)
       => LET toks == tokens
          IN  \A s \in 1..Len(toks) :
                 ValidCreateAt(toks, s)
                 => \A k \in 1..Len(toks) :
                       ExplicitCreate(toks, s, k)
                       => /\ ast # <<>>
                          /\ ast[Len(ast)].kind = "CreateNode"
                          /\ ast[Len(ast)].account_identifier.value
                               = toks[k + 1].value
    /\ (Completed /\ LastNode.kind = "CreateNode")
       => IF LastId \in DOMAIN prev
          THEN accounts = prev
          ELSE /\ DOMAIN accounts = DOMAIN prev \cup {LastId}
               /\ accounts[LastId] = LastNode
               /\ accounts[LastId].account_identifier.value = LastId
               /\ \A j \in DOMAIN prev : accounts[j] = prev[j]

\* A CREATE with an ACCOUNT clause has been rejected as a duplicate, the
\* account in the table differing from the new one in names and balance.
C3_Witness ==
    /\ Completed
    /\ LastNode.kind = "CreateNode"
    /\ LastId \in DOMAIN prev
    /\ prev[LastId].balance.value # LastNode.balance.value
    /\ prev[LastId].firstname # LastNode.firstname
    /\ accounts = prev
    /\ LET toks == tokens
       IN  \E k \in 1..Len(toks) : ExplicitCreate(toks, 1, k)

\* A CREATE with an ACCOUNT clause has been stored under its literal.
C3_WitnessStored ==
    /\ Completed
    /\ LastNode.kind = "CreateNode"
    /\ LastId \notin DOMAIN prev
    /\ LastId = ID_AB
    /\ LET toks == tokens
       IN  \E s \in 2..Len(toks) : \E k \in 1..Len(toks) :
              ExplicitCreate(toks, s, k)

(***************************************************************************)
(* C4.  Whenever run has returned an IllegalCharError or an                *)
(* InvalidSyntaxError, no statement of the chunk has been executed and the *)
(* table is the table of before the call.                                  *)
(***************************************************************************)
ReturnedError ==
    /\ pc = "returned"
    /\ ret.error_name \in {"Illegal Character", "Invalid Syntax"}

C4_AllOrNothing ==
    ReturnedError => (accounts = entry /\ ip = 1 /\ out = <<>>)

\* A chunk whose first statement is a well-formed DEPOSIT on an account of
\* the table, and whose second is malformed, has been refused.
C4_Witness ==
    /\ ReturnedError
    /\ ret.error_name = "Invalid Syntax"
    /\ stream = Join(<<KW_DEPOSIT, ID_AB, NUM_1, KW_BALANCE, NUM_1>>)
    /\ ID_AB \in DOMAIN accounts

\* The same with a character the lexer refuses after the DEPOSIT.
C4_WitnessIllegalChar ==
    /\ ReturnedError
    /\ ret.error_name = "Illegal Character"
    /\ stream = Join(<<KW_DEPOSIT, ID_AB, NUM_1, W_dollar>>)
    /\ ID_AB \in DOMAIN accounts

(***************************************************************************)
(* C5.  interpret executes the statements of a batch in sequence order,    *)
(* and once a statement has had a non-fatal outcome (Account not found,    *)
(* Insufficient funds, Account already exists) every later statement of    *)
(* the batch is still executed: when run is over, interpret has reached    *)
(* the last statement of the batch.                                        *)
(***************************************************************************)
NonFatal(lines) ==
    Texts(lines) \cap {"Account not found", "Insufficient funds",
                       "Account already exists"} # {}

C5_AllExecuted ==
    (pc \in {"returned", "raised"} /\ \E k \in 1..Len(out) : NonFatal(out[k]))
    => ip >= Len(ast)

\* The part of C5 that holds: a visit that returns, whatever its outcome,
\* is followed by the visit of the next statement, and run returns None
\* only when every statement has been visited.
C5_InOrder ==
    /\ pc = "interpret" => (ip = Len(out) + 1 /\ ip <= Len(ast) + 1)
    /\ (pc = "returned" /\ ret = None) => (ip = Len(ast) + 1 /\ Len(out) = Len(ast))

(***************************************************************************)
(* C6.  Executing a Create reports exactly one outcome: success, with the  *)
(* identifier stored, if and only if the account was inserted, and a       *)
(* rejection if and only if the identifier was already in the table; a     *)
(* rejected Create never reports "Account created".                        *)
(***************************************************************************)
C6_CreateOutcome ==
    (Completed /\ LastNode.kind = "CreateNode")
    => /\ Len(LastOut) = 1
       /\ IF LastId \in DOMAIN prev
          THEN Texts(LastOut) = {"Account already exists"}
          ELSE LastOut = <<Line("Account created", LastId, 0)>>

(***************************************************************************)
(* C7.  Every DepositNode and WithdrawNode the parser produces has an      *)
(* INTEGER or FLOAT token as its amount.                                   *)
(***************************************************************************)
C7_NumericAmount ==
    \A k \in 1..Len(ast) :
        ast[k].kind \in {"DepositNode", "WithdrawNode"}
        => IsNumeric(ast[k].amount)

(***************************************************************************)
(* C8.  When the tokens of a chunk end before a required token of its      *)
(* statement, run returns an InvalidSyntaxError: no exception leaves the   *)
(* parser and no statement node is produced.                               *)
(***************************************************************************)
\* The chunk is one statement cut short before a required token.
EndsBeforeRequired(toks) ==
    LET n == Len(toks)
    IN  \/ /\ n = 2
           /\ (IsKw(toks[1], KW_DEPOSIT) \/ IsKw(toks[1], KW_WITHDRAW))
           /\ toks[2].type = "TT_STR"
        \/ n = 1 /\ IsKw(toks[1], KW_BALANCE)
        \/ n = 2 /\ IsKw(toks[1], KW_CREATE) /\ IsKw(toks[2], KW_FIRSTNAME)
        \/ /\ n = 4
           /\ IsKw(toks[1], KW_CREATE)
           /\ IsKw(toks[2], KW_FIRSTNAME)
           /\ toks[3].type = "TT_STR"
           /\ IsKw(toks[4], KW_LASTNAME)
        \/ /\ n >= 6
           /\ ValidCreateAt(SubSeq(toks, 1, n - 1), 1)
           /\ (IsKw(toks[n], KW_BALANCE) \/ IsKw(toks[n], KW_ACCOUNT))

C8_MissingToken ==
    (pc # "idle" /\ EndsBeforeRequired(tokens))
    => /\ pc = "returned"
       /\ ret.error_name = "Invalid Syntax"
       /\ ast = <<>>

(***************************************************************************)
(* C9.  If the text holds, outside a word and outside a numeric run, a     *)
(* character that is no whitespace, letter or digit, run returns an        *)
(* IllegalCharError carrying the first such character and no statement is  *)
(* executed.                                                               *)
(***************************************************************************)
RECURSIVE FirstIllegal(_, _)
\* The first character from position i on that stands at the top level and
\* is no whitespace, letter or digit, or "" if there is none: a word runs
\* to the next whitespace, a numeric run over digits and '.'.
FirstIllegal(source, i) ==
    IF i > Len(source) THEN ""
    ELSE IF source[i] \in WHITESPACE THEN FirstIllegal(source, i + 1)
    ELSE IF source[i] \in LETTER THEN FirstIllegal(source, WordEnd(source, i))
    ELSE IF source[i] \in DIGIT THEN FirstIllegal(source, NumberEnd(source, i))
    ELSE source[i]

C9_IllegalChar ==
    (pc # "idle" /\ FirstIllegal(stream, 1) # "")
    => \/ /\ pc = "returned"
          /\ ret = IllegalCharError(FirstIllegal(stream, 1))
          /\ ast = <<>>
          /\ out = <<>>
       \/ pc = "raised" /\ exc = "ValueError"

(***************************************************************************)
(* C10.  The parser produces a CreateNode only for tokens of the form      *)
(* CREATE, FIRSTNAME, STRING, LASTNAME, STRING followed by more tokens, so *)
(* that the first and last name of every CreateNode are STRING tokens.     *)
(***************************************************************************)
C10_CreateForm ==
    \A k \in 1..Len(ast) :
        ast[k].kind = "CreateNode"
        => /\ ast[k].firstname.type = "TT_STR"
           /\ ast[k].lastname.type = "TT_STR"
           /\ LET toks == tokens
              IN  \E s \in 1..Len(toks) :
                     /\ Len(toks) >= s + 4
                     /\ IsKw(toks[s], KW_CREATE)
                     /\ IsKw(toks[s + 1], KW_FIRSTNAME)
                     /\ toks[s + 2] = ast[k].firstname
                     /\ IsKw(toks[s + 3], KW_LASTNAME)
                     /\ toks[s + 4] = ast[k].lastname

(***************************************************************************)
(* C11.  Every identifier in the table is two upper-case letters followed  *)
(* by six digits and nothing else, whether it was given in an ACCOUNT      *)
(* clause or generated from the names.                                     *)
(***************************************************************************)
TwoUpperSixDigits(s) ==
    /\ Len(s) = 8
    /\ s[1] \in UPPER
    /\ s[2] \in UPPER
    /\ \A k \in 3..8 : s[k] \in DIGIT

C11_IdentifierFormat ==
    \A k \in DOMAIN accounts : TwoUpperSixDigits(k)

\* The part of C11 that holds: an identifier is stored only if it begins
\* with two letters followed by six digits.
C11_IdentifierPrefix ==
    \A k \in DOMAIN accounts :
        /\ Len(k) >= 8
        /\ k[1] \in LETTER
        /\ k[2] \in LETTER
        /\ \A j \in 3..8 : k[j] \in DIGIT

(***************************************************************************)
(* C12.  When the parser reaches a CREATE whose names are STRING tokens    *)
(* and whose optional clauses are well formed up to an ACCOUNT clause      *)
(* with a STRING that does not match the account-number format, run        *)
(* returns InvalidSyntaxError("Invalid account number format") and the     *)
(* table is the table of before the call, whether or not a BALANCE or      *)
(* ACCOUNT clause precedes that clause.                                    *)
(***************************************************************************)
\* The parser starts a statement at position s: the tokens before s are
\* whole DEPOSIT, WITHDRAW and BALANCE statements.
StartsStatement(toks, s) ==
    LET p == parse(SubSeq(toks, 1, s - 1), RandLow)
    IN  /\ p.raised = NoRaise
        /\ p.error = None
        /\ \A n \in 1..Len(p.statements) : p.statements[n].kind # "CreateNode"

ValidClauseAt(toks, j) ==
    /\ j + 1 <= Len(toks)
    /\ \/ IsKw(toks[j], KW_BALANCE) /\ IsNumeric(toks[j + 1])
       \/ /\ IsKw(toks[j], KW_ACCOUNT)
          /\ toks[j + 1].type = "TT_STR"
          /\ ACCOUNT_NUMBER_FORMAT(toks[j + 1].value)

\* A CREATE starts at s, and its clause at k is an ACCOUNT clause with a
\* STRING outside the format, after well-formed clauses only.
BadAccountClause(toks, s, k) ==
    /\ Len(toks) >= s + 4
    /\ IsKw(toks[s], KW_CREATE)
    /\ IsKw(toks[s + 1], KW_FIRSTNAME)
    /\ toks[s + 2].type = "TT_STR"
    /\ IsKw(toks[s + 3], KW_LASTNAME)
    /\ toks[s + 4].type = "TT_STR"
    /\ k \in ClausePositions(toks, s)
    /\ k + 1 <= Len(toks)
    /\ IsKw(toks[k], KW_ACCOUNT)
    /\ toks[k + 1].type = "TT_STR"
    /\ ~ACCOUNT_NUMBER_FORMAT(toks[k + 1].value)
    /\ \A j \in ClausePositions(toks, s) : j < k => ValidClauseAt(toks, j)

C12_WitnessSecond ==
    /\ pc = "returned"
    /\ ret = InvalidSyntaxError("Invalid account number format")
    /\ LET toks == tokens
       IN  \E s \in 2..Len(toks) : \E k \in 1..Len(toks) :
              /\ StartsStatement(toks, s)
              /\ BadAccountClause(toks, s, k)

(***************************************************************************)
(* C13.  When the text holds a numeric literal with more than one '.',     *)
(* run returns an IllegalCharError, nothing is interpreted and no          *)
(* exception leaves run.                                                   *)
(***************************************************************************)
RECURSIVE MultiDot(_, _)
\* From position i on, the text holds at the top level a run of digits and
\* '.' with more than one '.'.
MultiDot(source, i) ==
    IF i > Len(source) THEN FALSE
    ELSE IF source[i] \in WHITESPACE THEN MultiDot(source, i + 1)
    ELSE IF source[i] \in LETTER THEN MultiDot(source, WordEnd(source, i))
    ELSE IF source[i] \in DIGIT
    THEN \/ Cardinality(DotPositions(
                SubSeq(source, i, NumberEnd(source, i) - 1))) > 1
         \/ MultiDot(source, NumberEnd(source, i))
    ELSE FALSE

C13_MultiDot ==
    (pc # "idle" /\ MultiDot(stream, 1))
    => /\ pc = "returned"
       /\ ret.error_name = "Illegal Character"
       /\ ast = <<>>
       /\ out = <<>>
       /\ accounts = entry

(***************************************************************************)
(* C14.  Every key of the table is the identifier of the account stored    *)
(* under it, so no two stored accounts have the same identifier.           *)
(***************************************************************************)
C14_KeyIsIdentifier ==
    /\ \A k \in DOMAIN accounts : accounts[k].account_identifier.value = k
    /\ \A j \in DOMAIN accounts : \A k \in DOMAIN accounts :
          accounts[j].account_identifier = accounts[k].account_identifier
          => j = k

\* The table holds two accounts, one under an identifier of more than
\* eight characters, the other under a generated identifier.
C14_Witness ==
    /\ pc = "idle"
    /\ ID_long \in DOMAIN accounts
    /\ accounts[ID_long].account_identifier.value = ID_long
    /\ \E k \in DOMAIN accounts :
          /\ k # ID_long
          /\ \E rand \in Rands :
                accounts[k].account_identifier
                  = build_account_identifier(accounts[k].firstname,
                                             accounts[k].lastname, rand).token

(***************************************************************************)
(* C15.  In every step, no identifier leaves the table, and an identifier  *)
(* enters it only in the execution of a Create statement, which adds the   *)
(* identifier of that statement and no other: a Deposit, Withdraw or       *)
(* Balance never adds or removes a key.                                    *)
(***************************************************************************)
C15_KeysGrowOnlyByCreate ==
    [][ /\ DOMAIN accounts \subseteq DOMAIN accounts'
        /\ DOMAIN accounts' # DOMAIN accounts
           => /\ pc = "interpret"
              /\ ip <= Len(ast)
              /\ ast[ip].kind = "CreateNode"
              /\ DOMAIN accounts'
                   = DOMAIN accounts \cup {ast[ip].account_identifier.value}
      ]_vars

\* A Deposit with a numeric amount on an identifier that is not in the
\* table has been executed, the table holding another account.
C15_Witness ==
    /\ Completed
    /\ LastNode.kind = "DepositNode"
    /\ IsNumeric(LastNode.amount)
    /\ LastId \notin DOMAIN prev
    /\ DOMAIN prev # {}
    /\ DOMAIN accounts = DOMAIN prev

(***************************************************************************)
(* C16.  In every step, the balance of an account of the table changes     *)
(* only in the execution of a Deposit or Withdraw statement that names the *)
(* account: a Balance, a Create (stored or rejected), the parsing of a     *)
(* chunk and the return of run leave every balance as it was.              *)
(***************************************************************************)
C16_BalanceFrame ==
    [][ \A k \in DOMAIN accounts :
           (k \in DOMAIN accounts' /\ accounts'[k].balance # accounts[k].balance)
           => /\ pc = "interpret"
              /\ ip <= Len(ast)
              /\ ast[ip].kind \in {"DepositNode", "WithdrawNode"}
              /\ ast[ip].account_identifier.value = k
      ]_vars

\* A Create with an opening balance other than the balance of the account
\* stored under its identifier has been rejected, the balance kept.
C16_Witness ==
    /\ Completed
    /\ LastNode.kind = "CreateNode"
    /\ LastId \in DOMAIN prev
    /\ prev[LastId].balance.value > 0
    /\ LastNode.balance.value = 0
    /\ accounts[LastId].balance = prev[LastId].balance

\* A Balance on an account with a balance above 0 has been executed.
C16_WitnessBalance ==
    /\ Completed
    /\ LastNode.kind = "BalanceNode"
    /\ LastId \in DOMAIN prev
    /\ prev[LastId].balance.value > 0
    /\ accounts = prev

(***************************************************************************)
(* C17.  The balance of every account of the table is >= 0.                *)
(***************************************************************************)
C17_NonNegative ==
    \A k \in DOMAIN accounts : accounts[k].balance.value >= 0

\* A Withdraw of more than 0 from an account with balance 0 has been
\* refused.
C17_Witness ==
    /\ Completed
    /\ LastNode.kind = "WithdrawNode"
    /\ IsNumeric(LastNode.amount)
    /\ LastNode.amount.value > 0
    /\ LastId \in DOMAIN prev
    /\ prev[LastId].balance.value = 0
    /\ accounts[LastId].balance.value = 0

(***************************************************************************)
(* C18.  parse_create runs to the end of the tokens: after the last name,  *)
(* a token that opens no BALANCE or ACCOUNT clause is passed over without  *)
(* error.  So a CreateNode is always the last statement of a parsed chunk  *)
(* (and the only CreateNode of it), and what is written after a CREATE in  *)
(* the same chunk is never made a statement and never executed.            *)
(***************************************************************************)
GrammarHead(toks, s) ==
    /\ Len(toks) >= s + 4
    /\ IsKw(toks[s], KW_CREATE)
    /\ IsKw(toks[s + 1], KW_FIRSTNAME)
    /\ toks[s + 2].type = "TT_STR"
    /\ IsKw(toks[s + 3], KW_LASTNAME)
    /\ toks[s + 4].type = "TT_STR"

RECURSIVE WellFormedTail(_, _)
\* From position i on, every BALANCE or ACCOUNT keyword that opens a clause
\* is followed by the token its clause requires; the other tokens are free.
WellFormedTail(toks, i) ==
    IF i > Len(toks) THEN TRUE
    ELSE IF IsKw(toks[i], KW_BALANCE) \/ IsKw(toks[i], KW_ACCOUNT)
    THEN ValidClauseAt(toks, i) /\ WellFormedTail(toks, i + 2)
    ELSE WellFormedTail(toks, i + 1)

C18_CreateConsumesAll ==
    /\ \A k \in 1..Len(ast) : ast[k].kind = "CreateNode" => k = Len(ast)
    /\ pc # "idle"
       => LET toks == tokens
          IN  \A s \in 1..Len(toks) :
                 (/\ GrammarHead(toks, s)
                  /\ WellFormedTail(toks, s + 5)
                  /\ StartsStatement(toks, s))
                 => /\ ret = None
                    /\ ast # <<>>
                    /\ ast[Len(ast)].kind = "CreateNode"
                    /\ Len(ast)
                         = Len(parse(SubSeq(toks, 1, s - 1),
                                     RandLow).statements) + 1
                    /\ Len(out) <= Len(ast)

\* A chunk with a DEPOSIT written after a CREATE has been run to the end:
\* one statement was executed, and the new account holds 0.
C18_Witness ==
    /\ pc = "returned"
    /\ ret = None
    /\ Len(ast) = 1
    /\ Len(out) = 1
    /\ ast[1].kind = "CreateNode"
    /\ LET toks == tokens
       IN  /\ GrammarHead(toks, 1)
           /\ WellFormedTail(toks, 6)
           /\ \E k \in 6..(Len(toks) - 2) :
                 /\ IsKw(toks[k], KW_DEPOSIT)
                 /\ toks[k + 1] = ast[1].account_identifier
                 /\ IsNumeric(toks[k + 2])
                 /\ toks[k + 2].value > 0
    /\ ast[1].account_identifier.value \notin DOMAIN entry
    /\ accounts[ast[1].account_identifier.value].balance.value = 0

\* A CREATE with a string and a number between the names and an ACCOUNT
\* clause has been stored under the identifier of the clause.
C18_WitnessFree ==
    /\ pc = "returned"
    /\ ret = None
    /\ Len(ast) = 1
    /\ ast[1].kind = "CreateNode"
    /\ LET toks == tokens
       IN  /\ GrammarHead(toks, 1)
           /\ WellFormedTail(toks, 6)
           /\ Len(toks) >= 9
           /\ toks[6].type = "TT_STR"
           /\ IsNumeric(toks[7])
           /\ IsKw(toks[8], KW_ACCOUNT)
           /\ ast[1].account_identifier = toks[9]
    /\ ast[1].account_identifier.value \in DOMAIN accounts

(***************************************************************************)
(* C19.  The lexer drops no character: the tokens it emits are the tokens  *)
(* of a left-to-right pass in which every character that is no whitespace  *)
(* belongs to one token, a word starting at a letter and running to the    *)
(* next whitespace, a number running over digits and '.', the next token   *)
(* starting at the very character the last one stopped at; and a character *)
(* that can start no token makes lexing fail.                              *)
(***************************************************************************)
RECURSIVE EveryCharTokens(_, _, _)
\* The tokens of that pass from position i on, and whether it meets a
\* character that starts no token.
EveryCharTokens(source, i, emitted) ==
    IF i > Len(source) THEN [tokens |-> emitted, illegal |-> FALSE]
    ELSE IF source[i] \in WHITESPACE
    THEN EveryCharTokens(source, i + 1, emitted)
    ELSE IF source[i] \in LETTER
    THEN EveryCharTokens(source, WordEnd(source, i),
                         Append(emitted, lex_word(source, i).token))
    ELSE IF source[i] \in DIGIT
    THEN EveryCharTokens(source, NumberEnd(source, i),
                         Append(emitted, lex_number(source, i).token))
    ELSE [tokens |-> <<>>, illegal |-> TRUE]

C19_NoCharDropped ==
    pc # "idle"
    => LET l == lex(stream)
           c == EveryCharTokens(stream, 1, <<>>)
       IN  IF c.illegal
           THEN l.error # None \/ l.raised # NoRaise
           ELSE l.raised = NoRaise
                => (l.error = None /\ l.tokens = c.tokens)

=============================================================================
